---- MODULE Spec2Model ----
(***************************************************************************)
(* The CommandRunner component of build-repo-ui (the revision with         *)
(* progress handling): its React state, the socket it opens on mount, the  *)
(* HTTP requests it has in flight, and one action per event handler.       *)
(*                                                                         *)
(* Conventions.  An optional JavaScript value is None (absent, undefined)  *)
(* or Some(v).  Array positions are 1-based; findLastIndex keeps -1 for    *)
(* "not found".  A handler together with the state updates it queues is    *)
(* one atomic step (React applies the queued updaters in order before the  *)
(* next event is dispatched), and the button reads the state of the last   *)
(* completed step.                                                         *)
(***************************************************************************)
EXTENDS Integers, Sequences, FiniteSets, TLC

VARIABLES
    gitUrl,           \* useState('')        : sequence of characters
    output,           \* useState([])        : sequence of OutputMessage
    activeCommandId,  \* useState(null)      : Null or a command id
    deployedRepos,    \* useState([])        : sequence of repo names
    isLoading,        \* useState(false)
    isConnected,      \* useState(false)
    mounted,          \* whether the mount effect has run and not been cleaned up
    sockets,          \* every socket io() has created, in creation order
    socketRef,        \* socketRef.current   : 0 (null) or an index into sockets
    deployPending,    \* bodies of the POST /api/deploy requests in flight
    stopPending,      \* bodies of the POST /api/stop requests in flight
    reposPending,     \* number of GET /api/repos requests in flight
    now,              \* the value Date.now() returns
    run,              \* history: progress of the current run of stream events
    before,           \* history: the log as the last stream event found it
    last              \* history: the handler that ran last, and its argument

vars == <<gitUrl, output, activeCommandId, deployedRepos, isLoading, isConnected,
          mounted, sockets, socketRef, deployPending, stopPending, reposPending,
          now, run, before, last>>

(* ------------------------------ bounds --------------------------------- *)

MaxLog == 2        \* entries the log may hold
MaxInFlight == 2   \* HTTP requests in flight at once
MaxSockets == 1    \* sockets created, i.e. times the mount effect runs
MaxClock == 1      \* readings of the clock after the first
MaxMounts == 3     \* times the mount effect runs where re-mounts are studied

(* ------------------------------ values --------------------------------- *)

None == <<>>
Some(v) == <<v>>
Null == "null"

\* a string is truthy unless it is absent or empty
TruthyStr(o) == o # None /\ o[1] # ""
\* a boolean flag is truthy only when it is present and true
TruthyFlag(o) == o = Some(TRUE)
\* a || d on an optional string
OrElse(o, d) == IF TruthyStr(o) THEN o[1] ELSE d

CommandIds == {"c1", "c2"}
Whitespace == {" ", "\t"}

RECURSIVE TrimStart(_)
TrimStart(s) ==
    IF s # <<>> /\ Head(s) \in Whitespace THEN TrimStart(Tail(s)) ELSE s

RECURSIVE TrimEnd(_)
TrimEnd(s) ==
    IF s # <<>> /\ s[Len(s)] \in Whitespace
    THEN TrimEnd(SubSeq(s, 1, Len(s) - 1))
    ELSE s

\* String.prototype.trim
Trim(s) == TrimEnd(TrimStart(s))

(* --------------------------- stream events ----------------------------- *)

Texts == {None, Some(""), Some("a"), Some("b")}
Kinds == {None, Some("stderr")}
ExitCodes == {None, Some(0), Some(1), Some(-1)}

\* isProgress and replaceLast as they come together: both absent, both set,
\* one set and the other false
FlagPairs ==
    {<<None, None>>, <<Some(TRUE), Some(TRUE)>>, <<Some(TRUE), Some(FALSE)>>,
     <<Some(FALSE), Some(TRUE)>>}

\* SocketMessage as the commandOutput listener reads it
OutputEvents ==
    {[commandId |-> "c1", output |-> o, outputType |-> k,
      isProgress |-> f[1], replaceLast |-> f[2]] :
        o \in Texts, k \in Kinds, f \in FlagPairs}

\* every shape of line that is kept, and the empty and absent texts under
\* every pair of flags
RunOutputEvents ==
    {d \in OutputEvents : TruthyStr(d.output) \/ d.outputType = None}

\* a plain line and a progress update
ServiceOutputEvents ==
    {d \in OutputEvents :
        /\ d.output = Some("a")
        /\ d.outputType = None
        /\ d.isProgress = d.replaceLast}

\* SocketMessage as the commandFinished listener reads it
FinishedEvents == [commandId : {"c1"}, exitCode : ExitCodes]

ServiceFinishedEvents == {d \in FinishedEvents : d.exitCode # Some(-1)}

(* --------------------------- output reconciler ------------------------- *)

IsProgressMsg(msg) == TruthyFlag(msg.isProgress)

\* forward scan: the first element the predicate accepts
findFirstIndex(array, accepts) ==
    LET scan[i \in 1..(Len(array) + 1)] ==
            IF i = Len(array) + 1 THEN -1
            ELSE IF accepts[i] THEN i
            ELSE scan[i + 1]
    IN  scan[1]

\* reverse linear scan for an element the predicate accepts, the predicate
\* given by its verdict on each position; -1 when there is none
findLastIndex(array, accepts) ==
    LET scan[i \in 0..Len(array)] ==
            IF i = 0 THEN -1
            ELSE IF accepts[i] THEN i
            ELSE scan[i - 1]
    IN  scan[Len(array)]

\* the entry with the kind never read from the event
OutputMessageOf_stdout(data, t) ==
    [id          |-> t,
     text        |-> OrElse(data.output, ""),
     type        |-> "stdout",
     isProgress  |-> data.isProgress,
     replaceLast |-> data.replaceLast]

OutputMessageOf(data, t) ==
    [id          |-> t,
     text        |-> OrElse(data.output, ""),
     type        |-> OrElse(data.outputType, "stdout"),
     isProgress  |-> data.isProgress,
     replaceLast |-> data.replaceLast]

\* the updater with either flag enough to replace
commandOutputUpdater_or(prev, data, t) ==
    LET newOutput == prev
        outputMessage == OutputMessageOf(data, t)
        lastProgressIndex == findLastIndex(newOutput,
                [i \in DOMAIN newOutput |-> IsProgressMsg(newOutput[i])])
    IN  IF (TruthyFlag(data.isProgress) \/ TruthyFlag(data.replaceLast))
           /\ lastProgressIndex # -1
        THEN [newOutput EXCEPT ![lastProgressIndex] = outputMessage]
        ELSE Append(newOutput, outputMessage)

\* the updater without the check of the index: a progress update with no
\* progress entry to replace is dropped
commandOutputUpdater_noAppend(prev, data, t) ==
    LET newOutput == prev
        outputMessage == OutputMessageOf(data, t)
        lastProgressIndex == findLastIndex(newOutput,
                [i \in DOMAIN newOutput |-> IsProgressMsg(newOutput[i])])
    IN  IF TruthyFlag(data.isProgress) /\ TruthyFlag(data.replaceLast)
        THEN IF lastProgressIndex # -1
             THEN [newOutput EXCEPT ![lastProgressIndex] = outputMessage]
             ELSE newOutput
        ELSE Append(newOutput, outputMessage)

\* the updater taking replaceLast by the letter: the update overwrites the
\* last entry of the log, whatever that entry is
commandOutputUpdater_lastEntry(prev, data, t) ==
    LET newOutput == prev
        outputMessage == OutputMessageOf(data, t)
    IN  IF TruthyFlag(data.isProgress) /\ TruthyFlag(data.replaceLast)
           /\ newOutput # <<>>
        THEN [newOutput EXCEPT ![Len(newOutput)] = outputMessage]
        ELSE Append(newOutput, outputMessage)

\* the updater handed to setOutput by the commandOutput listener
commandOutputUpdater(prev, data, t) ==
    LET newOutput == prev
        outputMessage == OutputMessageOf(data, t)
        lastProgressIndex == findLastIndex(newOutput,
                [i \in DOMAIN newOutput |-> IsProgressMsg(newOutput[i])])
    IN  IF TruthyFlag(data.isProgress) /\ TruthyFlag(data.replaceLast)
           /\ lastProgressIndex # -1
        THEN [newOutput EXCEPT ![lastProgressIndex] = outputMessage]
        ELSE Append(newOutput, outputMessage)

FinishedText(code) == "Process finished with exit code: " \o ToString(code)

\* the summary entry with the exit code never compared
FinishedMessage_success(data, t) ==
    [id          |-> t,
     text        |-> FinishedText(data.exitCode[1]),
     type        |-> "success",
     isProgress  |-> None,
     replaceLast |-> None]

\* the summary entry of the commandFinished listener
FinishedMessage(data, t) ==
    [id          |-> t,
     text        |-> FinishedText(data.exitCode[1]),
     type        |-> IF data.exitCode[1] = 0 THEN "success" ELSE "error",
     isProgress  |-> None,
     replaceLast |-> None]

\* the entry deployRepo appends on failure
ErrorMessage(message, t) ==
    [id          |-> t,
     text        |-> "Error: " \o message,
     type        |-> "error",
     isProgress  |-> None,
     replaceLast |-> None]

(* ------------------------------ history -------------------------------- *)

Did(op, arg) == last' = [op |-> op, arg |-> arg]

RunFresh == [phase |-> "fresh", n |-> 0, text |-> "", done |-> ""]
RunOther == [phase |-> "other", n |-> 0, text |-> "", done |-> ""]

\* a run of progress+replaceLast events handled from an empty log (n of them,
\* counted up to 2), then its closing non-progress event; a discarded event
\* leaves the run as it is
RunAfterOutput(data) ==
    IF ~TruthyStr(data.output) THEN run
    ELSE IF TruthyFlag(data.isProgress) /\ TruthyFlag(data.replaceLast)
    THEN IF run.phase \in {"fresh", "progress"}
         THEN [phase |-> "progress", n |-> IF run.n = 0 THEN 1 ELSE 2,
               text |-> data.output[1], done |-> ""]
         ELSE RunOther
    ELSE IF ~TruthyFlag(data.isProgress) /\ run.phase = "progress"
    THEN [phase |-> "closed", n |-> run.n, text |-> run.text,
          done |-> data.output[1]]
    ELSE RunOther

(* ------------------------------ sockets -------------------------------- *)

\* one registration per socketRef.current.on(...) call of the mount effect
EffectListeners ==
    [connect |-> 1, disconnect |-> 1, commandOutput |-> 1, commandFinished |-> 1]

NewSocket == [status |-> "connecting", listeners |-> EffectListeners]

\* a socket delivers events to its listeners only while it is connected
Listening(event) ==
    \E i \in DOMAIN sockets :
        sockets[i].status = "connected" /\ sockets[i].listeners[event] > 0

(* ------------------------------- Init ---------------------------------- *)

Init ==
    /\ gitUrl = <<>>
    /\ output = <<>>
    /\ activeCommandId = Null
    /\ deployedRepos = <<>>
    /\ isLoading = FALSE
    /\ isConnected = FALSE
    /\ mounted = FALSE
    /\ sockets = <<>>
    /\ socketRef = 0
    /\ deployPending = <<>>
    /\ stopPending = <<>>
    /\ reposPending = 0
    /\ now = 0
    /\ run = RunFresh
    /\ before = <<>>
    /\ last = [op |-> "init", arg |-> None]

(* -------------------------- HTTP responses ----------------------------- *)

GitUrls == {<<>>, <<" ", "\t">>, <<" ", "u", " ">>}
RepoLists == {<<>>, <<"r1">>}

ApiResponse(s, c, e) ==
    [kind |-> "json", success |-> s, commandId |-> c, error |-> e, message |-> ""]

Thrown(m) ==
    [kind |-> "throw", success |-> FALSE, commandId |-> None, error |-> None,
     message |-> m]

\* what `await fetch(...)` then `await response.json()` produce: an ApiResponse,
\* or an Error thrown by either
DeployResponses ==
    {ApiResponse(TRUE, Some(id), None) : id \in CommandIds}
    \cup {ApiResponse(TRUE, None, None), ApiResponse(TRUE, Some(""), None),
          ApiResponse(FALSE, None, None), ApiResponse(FALSE, None, Some("denied")),
          ApiResponse(FALSE, Some("c1"), None), Thrown("Failed to fetch")}

StopResponses ==
    {ApiResponse(TRUE, None, None), ApiResponse(FALSE, None, Some("denied")),
     Thrown("Failed to fetch")}

ReposResponses ==
    {[kind |-> "json", repos |-> None, message |-> ""]}
    \cup {[kind |-> "json", repos |-> Some(l), message |-> ""] : l \in RepoLists}
    \cup {[kind |-> "throw", repos |-> None, message |-> "Failed to fetch"]}

RemoveAt(s, i) == SubSeq(s, 1, i - 1) \o SubSeq(s, i + 1, Len(s))

InFlight == Len(deployPending) + Len(stopPending) + reposPending

(* --------------------------- mount effect ------------------------------ *)

\* useEffect(() => { ... }, []) : open the socket, register the listeners,
\* fetch the repo list
Mount ==
    /\ ~mounted
    /\ sockets' = Append(sockets, NewSocket)
    /\ socketRef' = Len(sockets) + 1
    /\ reposPending' = reposPending + 1
    /\ mounted' = TRUE
    /\ Did("mount", None)
    /\ UNCHANGED <<gitUrl, output, activeCommandId, deployedRepos, isLoading,
                   isConnected, deployPending, stopPending, now>>

\* the effect without its cleanup
Unmount_leak ==
    /\ mounted
    /\ mounted' = FALSE
    /\ Did("unmount", None)
    /\ UNCHANGED <<gitUrl, output, activeCommandId, deployedRepos, isLoading,
                   isConnected, sockets, socketRef, deployPending, stopPending,
                   reposPending, now>>

\* the effect's cleanup: socketRef.current.disconnect(); a connected socket
\* emits 'disconnect' to its listener as it closes
Unmount ==
    /\ mounted
    /\ mounted' = FALSE
    /\ IF socketRef # 0
       THEN /\ sockets' = [sockets EXCEPT ![socketRef].status = "disconnected"]
            /\ isConnected' =
                  IF sockets[socketRef].status = "connected"
                     /\ sockets[socketRef].listeners.disconnect > 0
                  THEN FALSE ELSE isConnected
       ELSE UNCHANGED <<sockets, isConnected>>
    /\ Did("unmount", None)
    /\ UNCHANGED <<gitUrl, output, activeCommandId, deployedRepos, isLoading,
                   socketRef, deployPending, stopPending, reposPending, now>>

\* on('connect')
OnConnect(i) ==
    /\ sockets[i].status = "connecting"
    /\ sockets' = [sockets EXCEPT ![i].status = "connected"]
    /\ isConnected' = IF sockets[i].listeners.connect > 0 THEN TRUE ELSE isConnected
    /\ Did("connect", i)
    /\ UNCHANGED <<gitUrl, output, activeCommandId, deployedRepos, isLoading,
                   mounted, socketRef, deployPending, stopPending, reposPending,
                   now>>

\* on('disconnect') when the transport drops; the socket reconnects by itself
OnDisconnect(i) ==
    /\ sockets[i].status = "connected"
    /\ sockets' = [sockets EXCEPT ![i].status = "connecting"]
    /\ isConnected' = IF sockets[i].listeners.disconnect > 0 THEN FALSE ELSE isConnected
    /\ Did("disconnect", i)
    /\ UNCHANGED <<gitUrl, output, activeCommandId, deployedRepos, isLoading,
                   mounted, socketRef, deployPending, stopPending, reposPending,
                   now>>

(* --------------------------- stream listeners -------------------------- *)

\* the listener keeping every event that has an output field, the empty
\* string included
OnCommandOutput_present(data) ==
    /\ Listening("commandOutput")
    /\ IF data.output # None
       THEN output' = commandOutputUpdater(output, data, now)
       ELSE UNCHANGED output
    /\ Did("commandOutput", data)
    /\ UNCHANGED <<gitUrl, activeCommandId, deployedRepos, isLoading, isConnected,
                   mounted, sockets, socketRef, deployPending, stopPending,
                   reposPending, now>>

\* on('commandOutput')
OnCommandOutput(data) ==
    /\ Listening("commandOutput")
    /\ IF TruthyStr(data.output)
       THEN output' = commandOutputUpdater(output, data, now)
       ELSE UNCHANGED output
    /\ Did("commandOutput", data)
    /\ UNCHANGED <<gitUrl, activeCommandId, deployedRepos, isLoading, isConnected,
                   mounted, sockets, socketRef, deployPending, stopPending,
                   reposPending, now>>

\* the listener refreshing the repo list on every commandFinished event
OnCommandFinished_refresh(data) ==
    /\ Listening("commandFinished")
    /\ IF data.exitCode # None
       THEN /\ output' = Append(output, FinishedMessage(data, now))
            /\ activeCommandId' = Null
            /\ isLoading' = FALSE
       ELSE UNCHANGED <<output, activeCommandId, isLoading>>
    /\ reposPending' = reposPending + 1
    /\ Did("commandFinished", data)
    /\ UNCHANGED <<gitUrl, deployedRepos, isConnected, mounted, sockets, socketRef,
                   deployPending, stopPending, now>>

\* on('commandFinished')
OnCommandFinished(data) ==
    /\ Listening("commandFinished")
    /\ IF data.exitCode # None
       THEN /\ output' = Append(output, FinishedMessage(data, now))
            /\ activeCommandId' = Null
            /\ isLoading' = FALSE
            /\ reposPending' = reposPending + 1
       ELSE UNCHANGED <<output, activeCommandId, isLoading, reposPending>>
    /\ Did("commandFinished", data)
    /\ UNCHANGED <<gitUrl, deployedRepos, isConnected, mounted, sockets, socketRef,
                   deployPending, stopPending, now>>

(* --------------------------- repo list fetcher ------------------------- *)

\* fetchDeployedRepos emptying the list when the refresh fails
OnReposResponse_clear(r) ==
    /\ mounted
    /\ reposPending > 0
    /\ reposPending' = reposPending - 1
    /\ deployedRepos' =
          IF r.kind = "json" /\ r.repos # None THEN r.repos[1] ELSE <<>>
    /\ Did("reposResponse", r)
    /\ UNCHANGED <<gitUrl, output, activeCommandId, isLoading, isConnected, mounted,
                   sockets, socketRef, deployPending, stopPending, now>>

\* fetchDeployedRepos, from the response on
OnReposResponse(r) ==
    /\ mounted
    /\ reposPending > 0
    /\ reposPending' = reposPending - 1
    /\ deployedRepos' =
          IF r.kind = "json" /\ r.repos # None THEN r.repos[1] ELSE deployedRepos
    /\ Did("reposResponse", r)
    /\ UNCHANGED <<gitUrl, output, activeCommandId, isLoading, isConnected, mounted,
                   sockets, socketRef, deployPending, stopPending, now>>

(* ------------------------- deployment controller ----------------------- *)

\* onChange of the URL input
SetGitUrl(u) ==
    /\ mounted
    /\ gitUrl' = u
    /\ Did("setGitUrl", None)
    /\ UNCHANGED <<output, activeCommandId, deployedRepos, isLoading, isConnected,
                   mounted, sockets, socketRef, deployPending, stopPending,
                   reposPending, now>>

\* !gitUrl
EmptyInput_noTrim(url) == url = <<>>

\* !gitUrl.trim()
EmptyInput(url) == Trim(url) = <<>>

\* deployRepo, up to the fetch it awaits
deployRepo ==
    /\ IF EmptyInput(gitUrl)
       THEN UNCHANGED <<output, isLoading, deployPending>>
       ELSE /\ output' = <<>>
            /\ isLoading' = TRUE
            /\ deployPending' = Append(deployPending, [gitUrl |-> Trim(gitUrl)])
    /\ Did("deployRepo", gitUrl)
    /\ UNCHANGED <<gitUrl, activeCommandId, deployedRepos, isConnected, mounted,
                   sockets, socketRef, stopPending, reposPending, now>>

\* stopProcess without its early return
stopProcess_noGuard ==
    /\ stopPending' = Append(stopPending, [commandId |-> activeCommandId])
    /\ Did("stopProcess", activeCommandId)
    /\ UNCHANGED <<gitUrl, output, activeCommandId, deployedRepos, isLoading,
                   isConnected, mounted, sockets, socketRef, deployPending,
                   reposPending, now>>

\* stopProcess, up to the fetch it awaits
stopProcess ==
    /\ IF activeCommandId = Null
       THEN UNCHANGED stopPending
       ELSE stopPending' = Append(stopPending, [commandId |-> activeCommandId])
    /\ Did("stopProcess", activeCommandId)
    /\ UNCHANGED <<gitUrl, output, activeCommandId, deployedRepos, isLoading,
                   isConnected, mounted, sockets, socketRef, deployPending,
                   reposPending, now>>

\* disabled={isLoading && !activeCommandId}
ButtonDisabled == isLoading /\ activeCommandId = Null

\* onClick={activeCommandId ? stopProcess : deployRepo}
ClickButton ==
    /\ mounted
    /\ ~ButtonDisabled
    /\ IF activeCommandId # Null THEN stopProcess ELSE deployRepo

\* the text of the entry a failed deploy appends
DeployFailureText(r) ==
    IF r.kind = "json" THEN OrElse(r.error, "Unknown error") ELSE r.message

\* deployRepo clearing the log when the success response arrives as well
OnDeployResponse_clear(i, r) ==
    /\ mounted
    /\ i \in DOMAIN deployPending
    /\ deployPending' = RemoveAt(deployPending, i)
    /\ IF r.kind = "json" /\ r.success /\ TruthyStr(r.commandId)
       THEN /\ activeCommandId' = r.commandId[1]
            /\ output' = <<>>
            /\ UNCHANGED isLoading
       ELSE /\ output' = Append(output, ErrorMessage(DeployFailureText(r), now))
            /\ isLoading' = FALSE
            /\ UNCHANGED activeCommandId
    /\ Did("deployResponse", r)
    /\ UNCHANGED <<gitUrl, deployedRepos, isConnected, mounted, sockets, socketRef,
                   stopPending, reposPending, now>>

\* deployRepo leaving the loading flag set when the request fails
OnDeployResponse_stuck(i, r) ==
    /\ mounted
    /\ i \in DOMAIN deployPending
    /\ deployPending' = RemoveAt(deployPending, i)
    /\ IF r.kind = "json" /\ r.success /\ TruthyStr(r.commandId)
       THEN /\ activeCommandId' = r.commandId[1]
            /\ UNCHANGED <<output, isLoading>>
       ELSE /\ output' = Append(output, ErrorMessage(DeployFailureText(r), now))
            /\ UNCHANGED <<activeCommandId, isLoading>>
    /\ Did("deployResponse", r)
    /\ UNCHANGED <<gitUrl, deployedRepos, isConnected, mounted, sockets, socketRef,
                   stopPending, reposPending, now>>

\* deployRepo, from the response of request i on
OnDeployResponse(i, r) ==
    /\ mounted
    /\ i \in DOMAIN deployPending
    /\ deployPending' = RemoveAt(deployPending, i)
    /\ IF r.kind = "json" /\ r.success /\ TruthyStr(r.commandId)
       THEN /\ activeCommandId' = r.commandId[1]
            /\ UNCHANGED <<output, isLoading>>
       ELSE /\ output' = Append(output, ErrorMessage(DeployFailureText(r), now))
            /\ isLoading' = FALSE
            /\ UNCHANGED activeCommandId
    /\ Did("deployResponse", r)
    /\ UNCHANGED <<gitUrl, deployedRepos, isConnected, mounted, sockets, socketRef,
                   stopPending, reposPending, now>>

\* stopProcess taking a successful response as the end of the command
OnStopResponse_clear(i, r) ==
    /\ mounted
    /\ i \in DOMAIN stopPending
    /\ stopPending' = RemoveAt(stopPending, i)
    /\ activeCommandId' =
          IF r.kind = "json" /\ r.success THEN Null ELSE activeCommandId
    /\ Did("stopResponse", r)
    /\ UNCHANGED <<gitUrl, output, deployedRepos, isLoading, isConnected, mounted,
                   sockets, socketRef, deployPending, reposPending, now>>

\* stopProcess, from the response of request i on: a failure is only logged
\* to the console
OnStopResponse(i, r) ==
    /\ mounted
    /\ i \in DOMAIN stopPending
    /\ stopPending' = RemoveAt(stopPending, i)
    /\ Did("stopResponse", r)
    /\ UNCHANGED <<gitUrl, output, activeCommandId, deployedRepos, isLoading,
                   isConnected, mounted, sockets, socketRef, deployPending,
                   reposPending, now>>

(* ------------------------------- clock --------------------------------- *)

\* a millisecond passes
Tick ==
    /\ now < MaxClock
    /\ now' = now + 1
    /\ Did("tick", None)
    /\ UNCHANGED <<gitUrl, output, activeCommandId, deployedRepos, isLoading,
                   isConnected, mounted, sockets, socketRef, deployPending,
                   stopPending, reposPending>>

(* --------------------------- specifications ---------------------------- *)

\* the bounds of the exploration, on the state a step leads to
Bounded ==
    /\ Len(output') <= MaxLog
    /\ InFlight' <= MaxInFlight
    /\ Len(sockets') <= MaxSockets

\* the histories of the stream are observed where the stream is studied
Quiet == Bounded /\ UNCHANGED <<run, before>>

\* the component in the browser: the user acts through the input and the button
Next ==
    \/ Mount /\ Quiet
    \/ Unmount /\ Quiet
    \/ (\E i \in DOMAIN sockets : OnConnect(i)) /\ Quiet
    \/ (\E i \in DOMAIN sockets : OnDisconnect(i)) /\ Quiet
    \/ (\E d \in ServiceOutputEvents : OnCommandOutput(d)) /\ Quiet
    \/ (\E d \in ServiceFinishedEvents : OnCommandFinished(d)) /\ Quiet
    \/ (\E r \in ReposResponses : OnReposResponse(r)) /\ Quiet
    \/ (\E u \in GitUrls : SetGitUrl(u)) /\ Quiet
    \/ ClickButton /\ Quiet
    \/ (\E i \in DOMAIN deployPending : \E r \in DeployResponses :
            OnDeployResponse(i, r)) /\ Quiet
    \/ (\E i \in DOMAIN stopPending : \E r \in StopResponses :
            OnStopResponse(i, r)) /\ Quiet

Spec == Init /\ [][Next]_vars

\* the mounted component fed every shape of stream event, with the run of
\* events since the log was empty observed
NextLog ==
    \/ Mount /\ Quiet
    \/ (\E i \in DOMAIN sockets : OnConnect(i)) /\ Quiet
    \/ \E d \in RunOutputEvents :
          /\ OnCommandOutput(d)
          /\ Bounded
          /\ run' = RunAfterOutput(d)
          /\ before' = output
    \/ \E d \in FinishedEvents :
          /\ OnCommandFinished(d)
          /\ Bounded
          /\ run' = (IF d.exitCode # None THEN RunOther ELSE run)
          /\ before' = output

SpecLog == Init /\ [][NextLog]_vars

\* the component with stopProcess also called directly, as a caller of the
\* function can, whatever the button shows
CallStop == mounted /\ stopProcess /\ Quiet

NextDirect == Next \/ CallStop

SpecDirect == Init /\ [][NextDirect]_vars

\* the component mounted, unmounted and mounted again, as React does in
\* strict mode and on navigation, with the stream running
LifeBounded ==
    /\ Len(output') <= MaxLog
    /\ InFlight' <= MaxInFlight
    /\ Len(sockets') <= MaxMounts
    /\ UNCHANGED <<run, before>>

NextLifecycle ==
    \/ Mount /\ LifeBounded
    \/ Unmount /\ LifeBounded
    \/ (\E i \in DOMAIN sockets : OnConnect(i)) /\ LifeBounded
    \/ (\E i \in DOMAIN sockets : OnDisconnect(i)) /\ LifeBounded
    \/ (\E d \in ServiceOutputEvents : OnCommandOutput(d)) /\ LifeBounded
    \/ (\E d \in ServiceFinishedEvents : OnCommandFinished(d)) /\ LifeBounded
    \/ (\E r \in ReposResponses : OnReposResponse(r)) /\ LifeBounded

SpecLifecycle == Init /\ [][NextLifecycle]_vars

\* the stream over a component that also deploys, so that the log holds
\* deploy error entries among the stream's entries: lines and progress
\* updates under every pair of flags, one URL, one answer of each kind
StreamOutputEvents ==
    {d \in OutputEvents : TruthyStr(d.output) /\ d.outputType = None}

StreamDeployResponses ==
    {r \in DeployResponses :
        \/ r.kind = "throw"
        \/ r.error # None
        \/ r.success /\ r.commandId = Some("c1")}

StreamStep == Bounded /\ UNCHANGED run /\ before' = output

NextStream ==
    \/ Mount /\ Quiet
    \/ (\E i \in DOMAIN sockets : OnConnect(i)) /\ Quiet
    \/ (\E d \in StreamOutputEvents : OnCommandOutput(d)) /\ StreamStep
    \/ (\E d \in ServiceFinishedEvents : OnCommandFinished(d)) /\ StreamStep
    \/ (\E r \in ReposResponses : r.kind = "throw" /\ OnReposResponse(r)) /\ Quiet
    \/ SetGitUrl(<<"u">>) /\ Quiet
    \/ ClickButton /\ Quiet
    \/ (\E i \in DOMAIN deployPending : \E r \in StreamDeployResponses :
            OnDeployResponse(i, r)) /\ Quiet
    \/ (\E i \in DOMAIN stopPending : \E r \in StopResponses :
            r.kind = "throw" /\ OnStopResponse(i, r)) /\ Quiet

SpecStream == Init /\ [][NextStream]_vars

\* the same component with the clock running: any number of handlers may run
\* within one millisecond
NextClock == NextStream \/ (Tick /\ Quiet)

SpecClock == Init /\ [][NextClock]_vars

(* ------------------------------ claims --------------------------------- *)

\* the step just taken ran the handler `op` (every action records itself)
Handled(op) == last'.op = op

NonEmptyText(d) == d.output # None /\ d.output # Some("")
EventKind(d) == IF d.outputType = None THEN "stdout" ELSE d.outputType[1]
ProgressEntry(m) == m.isProgress = Some(TRUE)
ProgressPositions(log) == {k \in DOMAIN log : ProgressEntry(log[k])}
Largest(S) == CHOOSE k \in S : \A j \in S : j <= k
ReplaceEvent(d) ==
    NonEmptyText(d) /\ d.isProgress = Some(TRUE) /\ d.replaceLast = Some(TRUE)
NonProgressEvent(d) == NonEmptyText(d) /\ d.isProgress # Some(TRUE)

\* C1: a commandOutput event with non-empty text, isProgress and replaceLast,
\* handled while the log holds a progress entry, keeps the log's length,
\* puts the event's text and kind at the largest position k of a progress
\* entry and leaves every other position as it was.
C1_ReplaceLastProgress ==
    [][(Handled("commandOutput") /\ ReplaceEvent(last'.arg)
            /\ ProgressPositions(output) # {})
        => LET k == Largest(ProgressPositions(output))
               d == last'.arg
           IN  /\ Len(output') = Len(output)
               /\ output'[k].text = d.output[1]
               /\ output'[k].type = EventKind(d)
               /\ \A j \in DOMAIN output : j # k => output'[j] = output[j]]_vars

\* two progress entries, the second of which now carries the replace event
\* while the first kept another text
C1_Witness ==
    /\ last.op = "commandOutput"
    /\ ReplaceEvent(last.arg)
    /\ Len(output) = 2
    /\ ProgressEntry(output[1])
    /\ output[1].replaceLast # Some(TRUE)
    /\ output[1].text # last.arg.output[1]
    /\ output[2].text = last.arg.output[1]
    /\ output[2].type = EventKind(last.arg)
    /\ output[2].replaceLast = Some(TRUE)

\* C2: every commandOutput event with non-empty text that is not a progress
\* event appends exactly one entry, with its text and kind, at the end of the
\* log and leaves the entries before it in place; so a sequence of such
\* events grows the log by one entry each, in arrival order.
C2_NonProgressAppends ==
    [][(Handled("commandOutput") /\ NonProgressEvent(last'.arg))
        => /\ Len(output') = Len(output) + 1
           /\ SubSeq(output', 1, Len(output)) = output
           /\ output'[Len(output')].text = last'.arg.output[1]
           /\ output'[Len(output')].type = EventKind(last'.arg)]_vars

\* two non-progress lines in the log in the order b, a, the last event being
\* the one that carried a on stderr with replaceLast set
C2_Witness ==
    /\ last.op = "commandOutput"
    /\ NonProgressEvent(last.arg)
    /\ last.arg.replaceLast = Some(TRUE)
    /\ Len(output) = 2
    /\ ~ProgressEntry(output[1])
    /\ output[1].text = "b"
    /\ output[2].text = "a"
    /\ output[2].type = "stderr"
    /\ last.arg.output = Some("a")

\* C3: from an empty log, a run of n >= 1 progress+replaceLast events
\* followed by one non-progress event leaves exactly two entries: the text
\* of the last progress event, then the text of the non-progress event.
C3_ProgressRunThenLine ==
    run.phase = "closed"
        => /\ Len(output) = 2
           /\ output[1].text = run.text
           /\ output[2].text = run.done

\* a run of at least two progress events closed by a line
C3_Witness ==
    /\ run.phase = "closed"
    /\ run.n = 2
    /\ run.text = "b"
    /\ run.done = "a"
    /\ last.op = "commandOutput"

(* claims on the deployment controller *)

Numeric(code) == code # None
FailedDeploy(r) ==
    r.kind = "throw" \/ ~r.success \/ r.commandId = None \/ r.commandId = Some("")
BlankUrl(u) == \A i \in DOMAIN u : u[i] \in {" ", "\t"}
RequestsInFlight == <<deployPending, stopPending, reposPending>>

\* C4: a commandFinished event with a numeric exit code appends exactly one
\* summary entry at the end of the log, of kind success for 0 and error for
\* any other code, and leaves no active command; without a numeric exit code
\* it changes neither the log nor the active command.
C4_FinishedSummary ==
    [][Handled("commandFinished")
        => IF Numeric(last'.arg.exitCode)
           THEN /\ Len(output') = Len(output) + 1
                /\ SubSeq(output', 1, Len(output)) = output
                /\ output'[Len(output')].type =
                      (IF last'.arg.exitCode = Some(0) THEN "success" ELSE "error")
                /\ activeCommandId' = Null
           ELSE /\ output' = output
                /\ activeCommandId' = activeCommandId]_vars

\* a failed command's summary after a line of output, the command id cleared
\* and a repo refresh in flight
C4_Witness ==
    /\ last.op = "commandFinished"
    /\ last.arg.exitCode = Some(1)
    /\ Len(output) = 2
    /\ output[1].type = "stdout"
    /\ output[2].type = "error"
    /\ output[2].text = "Process finished with exit code: 1"
    /\ activeCommandId = Null
    /\ deployPending = <<>>
    /\ reposPending = 1

\* C5: the active command goes from present to absent only in a step that
\* handles a commandFinished event with a numeric exit code; issuing a stop
\* request and handling its response leave the active command as it is.
C5_ClearedOnlyByFinished ==
    [][/\ (activeCommandId # Null /\ activeCommandId' = Null)
            => (Handled("commandFinished") /\ Numeric(last'.arg.exitCode))
       /\ (Handled("stopProcess") \/ Handled("stopResponse"))
            => activeCommandId' = activeCommandId]_vars

\* a successful stop response handled, the command still active
C5_Witness ==
    /\ last.op = "stopResponse"
    /\ last.arg.kind = "json"
    /\ last.arg.success
    /\ activeCommandId \in CommandIds
    /\ stopPending = <<>>

\* C6: a deploy request is issued only when no other deploy request is in
\* flight and no command is active.
C6_OneDeploymentOutstanding ==
    [][Len(deployPending') > Len(deployPending)
        => (deployPending = <<>> /\ activeCommandId = Null)]_vars

\* C7: a failed deploy request appends exactly one entry of kind error and
\* leaves no active command and the loading flag cleared.
C7_FailedDeployLeavesIdle ==
    [][(Handled("deployResponse") /\ FailedDeploy(last'.arg))
        => /\ Len(output') = Len(output) + 1
           /\ SubSeq(output', 1, Len(output)) = output
           /\ output'[Len(output')].type = "error"
           /\ activeCommandId' = Null
           /\ isLoading' = FALSE]_vars

C9_BlankUrlNoOp ==
    [][(Handled("deployRepo") /\ BlankUrl(gitUrl))
        => UNCHANGED <<output, activeCommandId, isLoading, deployedRepos,
                       RequestsInFlight>>]_vars

\* deployRepo called with a whitespace-only URL over a log that still holds
\* an entry
C9_Witness ==
    /\ last.op = "deployRepo"
    /\ gitUrl = <<" ", "\t">>
    /\ last.arg = gitUrl
    /\ output # <<>>
    /\ deployPending = <<>>
    /\ ~isLoading

\* C10: stopProcess with no active command issues no request and changes no
\* state.
C10_StopWithoutCommandNoOp ==
    [][(Handled("stopProcess") /\ activeCommandId = Null)
        => UNCHANGED <<output, activeCommandId, isLoading, deployedRepos,
                       RequestsInFlight>>]_vars

\* stopProcess called while no command was active, over a log that holds an
\* entry
C10_Witness ==
    /\ last.op = "stopProcess"
    /\ last.arg = Null
    /\ activeCommandId = Null
    /\ stopPending = <<>>
    /\ output # <<>>

(* claims on failures, the connection and the stream *)

TransportFailure(r) == r.kind = "throw"

\* C11: a stop request that fails in the transport appends exactly one entry
\* of kind error to the log and leaves the active command and the loading
\* flag as they were.
C11_StopFailureSurfaced ==
    [][(Handled("stopResponse") /\ TransportFailure(last'.arg))
        => /\ Len(output') = Len(output) + 1
           /\ SubSeq(output', 1, Len(output)) = output
           /\ output'[Len(output')].type = "error"
           /\ activeCommandId' = activeCommandId
           /\ isLoading' = isLoading]_vars


Open(i) == sockets[i].status # "disconnected"
OpenSockets == {i \in DOMAIN sockets : Open(i)}

\* C12: each mount creates exactly one connection carrying one listener per
\* event, each unmount disconnects the connection its mount created, at most
\* one connection is not disconnected at any time, and none is once the
\* component is unmounted.
C12_ConnectionScopedToMount ==
    /\ [](/\ \A i \in DOMAIN sockets :
                \A e \in DOMAIN sockets[i].listeners : sockets[i].listeners[e] = 1
          /\ Cardinality(OpenSockets) <= 1
          /\ mounted => (socketRef = Len(sockets) /\ OpenSockets = {socketRef})
          /\ ~mounted => OpenSockets = {})
    /\ [][/\ Handled("mount")
                => /\ Len(sockets') = Len(sockets) + 1
                   /\ SubSeq(sockets', 1, Len(sockets)) = sockets
                   /\ socketRef' = Len(sockets')
          /\ Handled("unmount")
                => /\ Len(sockets') = Len(sockets)
                   /\ ~Open(Len(sockets))'
                   /\ \A i \in 1..(Len(sockets) - 1) : sockets'[i] = sockets[i]]_vars

\* the strict-mode sequence mount, unmount, mount: the first connection was
\* closed while it was connected, the second is connected
C12_Witness ==
    /\ mounted
    /\ Len(sockets) = 2
    /\ sockets[1].status = "disconnected"
    /\ sockets[2].status = "connected"
    /\ socketRef = 2
    /\ isConnected
    /\ output # <<>>


\* C13: a commandOutput event with non-empty text, isProgress and replaceLast,
\* handled while the log (empty or not) holds no progress entry, is appended
\* as a new last entry marked isProgress; the log grows by one and the
\* entries before it are unchanged.
C13_FirstProgressAppends ==
    [][(Handled("commandOutput") /\ ReplaceEvent(last'.arg)
            /\ ProgressPositions(output) = {})
        => /\ Len(output') = Len(output) + 1
           /\ SubSeq(output', 1, Len(output)) = output
           /\ ProgressEntry(output'[Len(output')])
           /\ output'[Len(output')].text = last'.arg.output[1]
           /\ output'[Len(output')].type = EventKind(last'.arg)]_vars

\* a progress update appended after a plain line, the log having held no
\* progress entry
C13_Witness ==
    /\ last.op = "commandOutput"
    /\ ReplaceEvent(last.arg)
    /\ Len(before) = 1
    /\ ProgressPositions(before) = {}
    /\ Len(output) = 2
    /\ output[1] = before[1]
    /\ ProgressEntry(output[2])
    /\ output[2].text = last.arg.output[1]


ComponentState ==
    <<gitUrl, output, activeCommandId, deployedRepos, isLoading, isConnected,
      sockets, socketRef, RequestsInFlight>>

\* C14: a commandOutput event whose text is empty or absent is discarded,
\* whatever its flags: the log and every other state variable stay as they
\* were.
C14_EmptyTextDiscarded ==
    [][(Handled("commandOutput") /\ ~NonEmptyText(last'.arg))
        => UNCHANGED ComponentState]_vars

\* a progress update with the empty string as text, discarded over a log that
\* holds a progress entry it could have replaced
C14_Witness ==
    /\ last.op = "commandOutput"
    /\ last.arg.output = Some("")
    /\ last.arg.isProgress = Some(TRUE)
    /\ last.arg.replaceLast = Some(TRUE)
    /\ ProgressPositions(output) # {}
    /\ before = output


StreamEvent == Handled("commandOutput") \/ Handled("commandFinished")
\* a terminal summary or a deploy error entry
TerminalEntry(m) == m.type \in {"success", "error"} /\ m.isProgress = None

\* C15: no commandOutput or commandFinished event shortens the log or changes
\* an entry that is not a progress entry; a terminal summary entry and a
\* deploy error entry keep their position and content under every stream
\* event.
C15_AppendOnlyButProgress ==
    [][StreamEvent
        => /\ Len(output') >= Len(output)
           /\ \A j \in DOMAIN output :
                /\ output'[j] # output[j] => ProgressEntry(output[j])
                /\ TerminalEntry(output[j]) => output'[j] = output[j]]_vars

\* a progress update overwrote the progress entry that followed a deploy
\* error entry, and the error entry stayed where it was
C15_Witness ==
    /\ last.op = "commandOutput"
    /\ ReplaceEvent(last.arg)
    /\ Len(before) = 2
    /\ Len(output) = 2
    /\ before[1].text = "Error: denied"
    /\ TerminalEntry(before[1])
    /\ output[1] = before[1]
    /\ ProgressEntry(before[2])
    /\ output[2] # before[2]


\* C16: in every reachable state the entries of the log have pairwise
\* distinct ids.
C16_DistinctIds ==
    \A i, j \in DOMAIN output : i # j => output[i].id # output[j].id


(* claims on the repo list and the button *)

RefreshTrigger ==
    \/ Handled("mount")
    \/ Handled("commandFinished") /\ Numeric(last'.arg.exitCode)

\* C17: a repo-list request is issued, exactly one, by each mount and by each
\* commandFinished event with a numeric exit code, and by no other step:
\* deploy and stop responses, commandOutput events and commandFinished events
\* without a numeric exit code issue none.
C17_RefreshOnMountAndFinish ==
    [][IF RefreshTrigger
       THEN reposPending' = reposPending + 1
       ELSE reposPending' <= reposPending]_vars

\* the refresh of a finished command in flight after the one of the mount
\* was answered
C17_Witness ==
    /\ last.op = "commandFinished"
    /\ Numeric(last.arg.exitCode)
    /\ deployedRepos = <<"r1">>
    /\ reposPending = 1


RepoListOf(r) == r.kind = "json" /\ r.repos # None

\* C18: a refresh answered with a repo list replaces the cached list by that
\* list; a refresh that fails, or is answered without a list, keeps the
\* cached list; either way the log, the active command, the loading flag and
\* the deploy and stop requests in flight are left as they were.
C18_RefreshReplacesOrKeeps ==
    [][Handled("reposResponse")
        => /\ deployedRepos' =
                (IF RepoListOf(last'.arg) THEN last'.arg.repos[1] ELSE deployedRepos)
           /\ UNCHANGED <<output, activeCommandId, isLoading, gitUrl,
                          deployPending, stopPending>>]_vars

\* a refresh failed in the transport while a deployment was running: the
\* list fetched before is still there
C18_Witness ==
    /\ last.op = "reposResponse"
    /\ last.arg.kind = "throw"
    /\ deployedRepos = <<"r1">>
    /\ activeCommandId # Null
    /\ isLoading


\* the event is not one of the running command: another command's, or one
\* that comes while no command is active or a deploy request is in flight
Uncorrelated(d) ==
    \/ d.commandId # activeCommandId
    \/ activeCommandId = Null
    \/ deployPending # <<>>

\* C19: a commandOutput or commandFinished event that is not one of the active
\* command appends nothing to the log and clears neither the active command
\* nor the loading flag.
C19_EventsCorrelated ==
    [][((Handled("commandOutput") \/ Handled("commandFinished"))
            /\ Uncorrelated(last'.arg))
        => UNCHANGED <<output, activeCommandId, isLoading>>]_vars


Idle == deployPending = <<>> /\ activeCommandId = Null

\* C20: in every reachable state with no deploy request in flight and no
\* active command the loading flag is false, so the button is enabled; and a
\* click on it in such a state, with a URL that is not blank, issues a deploy
\* request.
C20_StartNeverStuck ==
    /\ [](Idle => (~isLoading /\ ~ButtonDisabled))
    /\ [][(Idle /\ Handled("deployRepo") /\ ~BlankUrl(gitUrl))
            => (Len(deployPending') = 1 /\ isLoading')]_vars

\* back to idle after a deploy request that failed in the transport, the
\* component still mounted
C20_Witness ==
    /\ last.op = "deployResponse"
    /\ last.arg.kind = "throw"
    /\ Idle
    /\ mounted
    /\ ~isLoading
    /\ output # <<>>

====
